---- MODULE Spec2Model ----
\* A model of the agent workflow repository:
\*   - run_orchestration (src/orchestrator/orchestrator.py): the per-file loop and
\*     the recursive closure execute(), with Agent.run (src/agents/agent.py);
\*   - ConfigLoader (src/config/config_loader.py): the cached singleton.
EXTENDS Integers, Sequences, FiniteSets, TLC

VARIABLES
    \* ---- run_orchestration ----
    pc,           \* "start" | "files" | "exec" | "done" | "aborted"
    flow,         \* flow.json: [keys: key order of the mapping, succ: key -> successor list]
    config,       \* [default: default_config.json, agents: agent_config.json]
    agents,       \* the names for which an Agent was built (orchestrator.py:29-39)
    initial_agent,\* <<>> until set, then <<name>> (orchestrator.py:47)
    files,        \* storage: path -> content
    dirs,         \* storage: the directories that exist
    remaining,    \* the entries repo_folder.glob("*.*") has not yielded yet
    file_path,    \* <<>> or <<path>>: the loop variable of orchestrator.py:67
    output_map,   \* the per-file dict of orchestrator.py:84
    stack,        \* the active calls of execute(), outermost first
    log,          \* history: one record per call of execute(), in call order
    \* ---- ConfigLoader ----
    disk,         \* configuration storage: path -> [exists, json: <<document>> or <<>>]
    instance,     \* ConfigLoader._instance: 0 (None) or the identity of an object
    heap,         \* the ConfigLoader objects allocated so far: identity -> attributes
    reads,        \* history: the number of calls of _load_config_file so far
    last,         \* history: the latest ConfigLoader(...) call or reset, and its outcome
    \* ---- pure functions ----
    probe,        \* the latest application of a pure function: its inputs and result
    \* ---- a second run ----
    first_run,    \* <<>> in a first run; in a second run, <<what the first run left>>
    \* ---- prompts ----
    prompts       \* the prompts folder: step -> [system: the file exists, template]

orchVars == <<pc, flow, config, agents, initial_agent, files, dirs, remaining,
              file_path, output_map, stack, log>>
loaderVars == <<disk, instance, heap, reads, last>>
vars == <<orchVars, loaderVars, probe, first_run, prompts>>

\* ---------------------------------------------------------------- bounds

\* Depth of nested execute() calls at which the interpreter's recursion limit
\* is hit (RecursionError, an Exception, is caught by the frame it is raised in).
MaxDepth == 5
\* Number of ConfigLoader objects allocated in one behaviour.
MaxInstances == 2

\* ---------------------------------------------------------------- helpers

Put(f, k, v) == [x \in DOMAIN f \cup {k} |-> IF x = k THEN v ELSE f[x]]
Range(s) == {s[i] : i \in DOMAIN s}
Last(s) == s[Len(s)]
Front(s) == SubSeq(s, 1, Len(s) - 1)
Empty == [k \in {} |-> <<>>]

\* ---------------------------------------------------------------- inputs

\* A file name is its stem and its final suffix (pathlib: name = stem + suffix).
FName(stem, ext) == [stem |-> stem, ext |-> ext]
\* A path is a directory and a file name.
Path(dir, name) == [dir |-> dir, name |-> name]
RepoDir == <<"repository">>
OutRoot == <<"output">>
InitPy == FName("__init__", ".py")

\* The flow mappings the run is checked on.
Diamond == [keys |-> <<"A", "B", "C", "D">>,
            succ |-> [A |-> <<"B", "C">>, B |-> <<"D">>, C |-> <<"D">>, D |-> <<>>]]
Chain == [keys |-> <<"extract", "summarize">>,
          succ |-> [extract |-> <<"summarize">>, summarize |-> <<>>]]
Tree == [keys |-> <<"A", "B", "C", "D", "E">>,
         succ |-> [A |-> <<"B", "C", "D">>, B |-> <<"E">>, C |-> <<>>, D |-> <<>>,
                   E |-> <<>>]]
Shortcut == [keys |-> <<"A", "B", "C">>,
             succ |-> [A |-> <<"B", "C">>, B |-> <<"C">>, C |-> <<>>]]
TwoCycle == [keys |-> <<"A", "B">>, succ |-> [A |-> <<"B">>, B |-> <<"A">>]]
RootedCycle == [keys |-> <<"A", "B", "C">>,
                succ |-> [A |-> <<"B">>, B |-> <<"C">>, C |-> <<"B">>]]
SelfLoop == [keys |-> <<"A">>, succ |-> [A |-> <<"A">>]]
RootLast == [keys |-> <<"B", "A">>, succ |-> [A |-> <<"B">>, B |-> <<>>]]
TwoRoots == [keys |-> <<"A", "B">>, succ |-> [A |-> <<>>, B |-> <<>>]]
TwoRootsJoin == [keys |-> <<"A", "B", "C">>,
                 succ |-> [A |-> <<"C">>, B |-> <<"C">>, C |-> <<>>]]
Fixture == [keys |-> <<"start_agent">>, succ |-> [start_agent |-> <<"agent_A", "agent_B">>]]
NoSteps == [keys |-> <<>>, succ |-> Empty]
Flows == {Diamond, Chain, Tree, Shortcut, TwoCycle, RootedCycle, SelfLoop, RootLast,
          TwoRoots, TwoRootsJoin, Fixture, NoSteps}

\* default_config.json (its default_agent_config block) and agent_config.json.
Plain == [default |-> Empty, agents |-> Empty]
Suffixed == [default |-> [output_file_suffix |-> "_v2"], agents |-> Empty]
Named == [default |-> Empty,
          agents |-> [B |-> [output_file |-> FName("out", ".txt")],
                      summarize |-> [output_file |-> FName("out", ".txt"),
                                     output_file_suffix |-> "_v2"]]]
Configs == {Plain, Suffixed, Named}

\* The repository folder at startup: whether it exists and the entries in it.
Repos == {[exists |-> TRUE, names |-> {FName("a", ".txt"), FName("b", ".txt")}],
          [exists |-> TRUE, names |-> {FName("a", ".txt"), InitPy}],
          [exists |-> TRUE, names |-> {FName("a", ".txt"), FName("a", ".md")}],
          [exists |-> TRUE, names |-> {}],
          [exists |-> FALSE, names |-> {}]}

\* The raw content of an input file, and the payload of the n-th call of the
\* text-completion capability (each call returns a text of its own).
Raw(name) == [raw |-> name]
Payload(n) == [gen |-> n]
\* What llm.chat does on its n-th call: it raises, or returns a text with or
\* without a fenced block holding the payload.
LLMResponses(n) == {[kind |-> "error", fenced |-> FALSE, payload |-> Payload(n)],
                    [kind |-> "text", fenced |-> FALSE, payload |-> Payload(n)],
                    [kind |-> "text", fenced |-> TRUE, payload |-> Payload(n)]}

\* A run without a prompts folder: no step has a system prompt or a template.
NoPrompts == [k \in {} |-> [system |-> FALSE, template |-> [kind |-> "absent", fields |-> {}]]]

\* ---------------------------------------------------------------- agent.py

\* pathlib's Path(p).stem: the file name without its final suffix.
Stem(p) == p.name.stem

\* Mutant of Merge: the default value wins over the override.
MergeDefaultWins(defaults, overrides) ==
    [k \in DOMAIN defaults \cup DOMAIN overrides |->
        IF k \in DOMAIN defaults THEN defaults[k] ELSE overrides[k]]

\* {**default_config.get("default_agent_config", {}), **agent_configs.get(name, {})}
Merge(defaults, overrides) ==
    [k \in DOMAIN defaults \cup DOMAIN overrides |->
        IF k \in DOMAIN overrides THEN overrides[k] ELSE defaults[k]]

\* agent_configs.get(agent_name, {})
AgentConfig(cfg, name) == IF name \in DOMAIN cfg.agents THEN cfg.agents[name] ELSE Empty

\* The config an Agent is constructed with (orchestrator.py:38-39).
merged_config(cfg, name) == Merge(cfg.default, AgentConfig(cfg, name))

\* Mutant of get_output_file_name: the suffix is looked at before the explicit
\* output_file.
SuffixBeforeOutputFile(name, cfg, input_path) ==
    IF "output_file_suffix" \in DOMAIN cfg
    THEN FName(Stem(input_path) \o cfg.output_file_suffix, "")
    ELSE IF "output_file" \in DOMAIN cfg THEN cfg.output_file
         ELSE FName(name, ".txt")

\* Agent.get_output_file_name. The suffix of the model holds no dot, so the
\* name built from it has no extension of its own.
get_output_file_name(name, cfg, input_path) ==
    IF "output_file" \in DOMAIN cfg THEN cfg.output_file
    ELSE IF "output_file_suffix" \in DOMAIN cfg
         THEN FName(Stem(input_path) \o cfg.output_file_suffix, "")
         ELSE FName(name, ".txt")

\* Mutant of extract_code_block: a text without a fenced block is used whole.
RawTextFallback(text) == <<text.payload>>

\* Agent.extract_code_block: <<payload>> of the first fenced block, or <<>>
\* when the text has none (the method raises ValueError).
extract_code_block(text) == IF text.fenced THEN <<text.payload>> ELSE <<>>

\* The input files whose content has whitespace around it (a final newline):
\* the .txt files of the model; the content of the others has none.
Padded(name) == name.ext = ".txt"

\* str.strip(): the content of an input file loses its leading and trailing
\* whitespace, if it has any; an extracted block was stripped before it was
\* written.
Strip(c) == IF "raw" \in DOMAIN c /\ Padded(c.raw) THEN [stripped |-> c.raw] ELSE c

\* A user template: no file; a file whose replacement fields are names; a file
\* with a positional field ("{}"), for which format(**context_vars) raises
\* IndexError.
NoTemplate == [kind |-> "absent", fields |-> {}]
NamedTemplate(S) == [kind |-> "named", fields |-> S]
PositionalTemplate == [kind |-> "positional", fields |-> {}]

\* prompts/<name>/: whether system.txt exists, and user_template.txt.
PromptOf(name) ==
    IF name \in DOMAIN prompts THEN prompts[name]
    ELSE [system |-> FALSE, template |-> NoTemplate]

\* system_prompt (lines 94-95)
SystemPrompt(name) ==
    IF PromptOf(name).system THEN [system_of |-> name]
    ELSE [default |-> "You are a helpful assistant."]

\* The user prompt: the text of a template with the values put in its fields;
\* the empty string is the absent template with no value.
UserPrompt(tpl, values) == [template |-> tpl, values |-> values]
EmptyPrompt == UserPrompt(NoTemplate, Empty)

\* Mutant of load_user_prompt_template: the KeyError of a missing field is not
\* caught.
KeyErrorNotCaught(tpl, context_vars) ==
    IF tpl.kind = "absent" THEN [raised |-> FALSE, prompt |-> EmptyPrompt]
    ELSE IF tpl.kind = "positional" \/ ~(tpl.fields \subseteq DOMAIN context_vars)
         THEN [raised |-> TRUE, prompt |-> EmptyPrompt]
         ELSE [raised |-> FALSE,
               prompt |-> UserPrompt(tpl, [f \in tpl.fields |-> context_vars[f]])]

\* Agent.load_user_prompt_template: "" without a file; the formatted template;
\* the template as it is when a named field is not in context_vars (KeyError
\* is caught); any other exception of format() leaves the method.
load_user_prompt_template(tpl, context_vars) ==
    IF tpl.kind = "absent" THEN [raised |-> FALSE, prompt |-> EmptyPrompt]
    ELSE IF tpl.kind = "positional" THEN [raised |-> TRUE, prompt |-> EmptyPrompt]
    ELSE IF tpl.fields \subseteq DOMAIN context_vars
         THEN [raised |-> FALSE,
               prompt |-> UserPrompt(tpl, [f \in tpl.fields |-> context_vars[f]])]
         ELSE [raised |-> FALSE, prompt |-> UserPrompt(tpl, Empty)]

\* previous_outputs.copy(): the dict of the <<key, value>> pairs.
AsDict(pairs) ==
    [k \in {pairs[n][1] : n \in DOMAIN pairs} |->
        pairs[CHOOSE n \in DOMAIN pairs : pairs[n][1] = k][2]]

\* Mutant of ContextVars: the input file is read for every step.
AlwaysInputContent(previous_outputs, input_file, fs) ==
    IF input_file \in DOMAIN fs
    THEN Put(AsDict(previous_outputs), "input_content", Strip(fs[input_file]))
    ELSE AsDict(previous_outputs)

\* context_vars (lines 98-105): the previous outputs, and the stripped content
\* of the input file when there is no previous output and the file exists.
ContextVars(previous_outputs, input_file, fs) ==
    IF previous_outputs = <<>> /\ input_file \in DOMAIN fs
    THEN Put(AsDict(previous_outputs), "input_content", Strip(fs[input_file]))
    ELSE AsDict(previous_outputs)

\* Mutant of BuildMessages: the previous outputs are left out of the
\* conversation.
MessagesWithoutContext(system_prompt, previous_outputs, user_prompt) ==
    <<[role |-> "system", content |-> system_prompt],
      [role |-> "user", content |-> user_prompt]>>

\* messages (lines 111-121)
BuildMessages(system_prompt, previous_outputs, user_prompt) ==
    <<[role |-> "system", content |-> system_prompt]>>
    \o [n \in 1..Len(previous_outputs) |->
            [role |-> "assistant",
             content |-> [context_from |-> previous_outputs[n][1],
                          text |-> Strip(previous_outputs[n][2])]]]
    \o <<[role |-> "user", content |-> user_prompt]>>

\* Agent.run on one response of the capability: whether it raises, whether
\* llm.chat was called and with what, and storage after it. The output file
\* is written last, once the block is extracted.
AgentRun(name, cfg, input_file, output_dir, previous_outputs, resp, fs) ==
    LET context_vars == ContextVars(previous_outputs, input_file, fs)
        user == load_user_prompt_template(PromptOf(name).template, context_vars)
        messages == BuildMessages(SystemPrompt(name), previous_outputs, user.prompt)
    IN  IF user.raised
        THEN [raised |-> TRUE, called |-> FALSE, context_vars |-> context_vars,
              messages |-> <<>>, files |-> fs]
        ELSE IF resp.kind = "error" \/ extract_code_block(resp) = <<>>
        THEN [raised |-> TRUE, called |-> TRUE, context_vars |-> context_vars,
              messages |-> messages, files |-> fs]
        ELSE [raised |-> FALSE, called |-> TRUE, context_vars |-> context_vars,
              messages |-> messages,
              files |-> Put(fs, Path(output_dir,
                                     get_output_file_name(name, cfg, input_file)),
                            extract_code_block(resp)[1])]

\* ---------------------------------------------------------------- orchestrator.py

\* Mutant of FlowGet: the successors in the reverse of the declared order.
FlowGetReversed(fl, name) ==
    IF name \in DOMAIN fl.succ
    THEN [n \in 1..Len(fl.succ[name]) |-> fl.succ[name][Len(fl.succ[name]) + 1 - n]]
    ELSE <<>>

\* Mutant of FlowGet: every successor is listed, and so called, twice.
FlowGetTwice(fl, name) ==
    IF name \in DOMAIN fl.succ THEN fl.succ[name] \o fl.succ[name] ELSE <<>>

\* flow.get(agent_name, [])
FlowGet(fl, name) == IF name \in DOMAIN fl.succ THEN fl.succ[name] ELSE <<>>

\* Mutant of PreviousOutputs: the whole of output_map is handed on, whatever
\* the path (previous_outputs = dict(output_map)).
RECURSIVE WholeOutputMap(_, _)
WholeOutputMap(previous_agents, om) ==
    IF DOMAIN om = {} THEN <<>>
    ELSE LET p == CHOOSE q \in DOMAIN om : TRUE
         IN <<<<p, om[p]>>>> \o
            WholeOutputMap(previous_agents, [q \in DOMAIN om \ {p} |-> om[q]])

\* {p: output_map[p] for p in previous_agents if p in output_map}: a dict keeps
\* a key at the place of its first insertion, so the result is the sequence of
\* <<key, value>> pairs in the order the keys first occur in previous_agents.
RECURSIVE PreviousOutputs(_, _)
PreviousOutputs(previous_agents, om) ==
    IF previous_agents = <<>> THEN <<>>
    ELSE LET rest == PreviousOutputs(Front(previous_agents), om)
             p == Last(previous_agents)
         IN IF p \in DOMAIN om /\ \A i \in DOMAIN rest : rest[i][1] # p
            THEN Append(rest, <<p, om[p]>>)
            ELSE rest

\* output_root / input_file_name, for the file the loop is at.
OutputSubfolder(fp) == OutRoot \o <<Stem(fp)>>

\* Mutant of CallFrame: every call is handed the input file of the loop, the
\* successors' calls too.
CallFrameOnArtifact(name, input_file, previous_agents, parent) ==
    [agent_name |-> name,
     input_file |-> IF parent = 0 THEN input_file ELSE file_path[1],
     previous_agents |-> previous_agents,
     pc |-> "call", idx |-> 1, output_path |-> <<>>, id |-> 0, parent |-> parent]

\* A call of execute(agent_name, input_file, previous_agents) that has not run
\* its body yet; parent is the log index of the call that made it (0: the loop).
CallFrame(name, input_file, previous_agents, parent) ==
    [agent_name |-> name, input_file |-> input_file, previous_agents |-> previous_agents,
     pc |-> "call", idx |-> 1, output_path |-> <<>>, id |-> 0, parent |-> parent]

\* The body of execute() up to the loop over the successors (lines 88-143), on
\* one response of the capability: whether it raised, and the state it leaves.
TryBody(fr, resp) ==
    LET name == fr.agent_name
        sub == OutputSubfolder(file_path[1])
        prev == PreviousOutputs(fr.previous_agents, output_map)
        base == [raised |-> TRUE, ran |-> FALSE, called |-> FALSE,
                 context_vars |-> Empty, messages |-> <<>>, previous_outputs |-> <<>>,
                 files |-> files, dirs |-> dirs, output_map |-> output_map,
                 output_path |-> <<>>]
    IN  IF Len(stack) > MaxDepth THEN base                \* RecursionError
        ELSE IF name \notin agents THEN base               \* KeyError at agents[agent_name]
        ELSE LET run == AgentRun(name, merged_config(config, name), fr.input_file, sub,
                                 prev, resp, files)
                 output_path == Path(sub, get_output_file_name(
                                    name, merged_config(config, name), fr.input_file))
             IN IF run.raised
                THEN [base EXCEPT !.ran = TRUE, !.called = run.called,
                                  !.context_vars = run.context_vars,
                                  !.messages = run.messages,
                                  !.previous_outputs = prev,
                                  !.dirs = dirs \cup {sub}]
                ELSE [raised |-> FALSE, ran |-> TRUE, called |-> TRUE,
                      context_vars |-> run.context_vars, messages |-> run.messages,
                      previous_outputs |-> prev,
                      files |-> run.files, dirs |-> dirs \cup {sub},
                      output_map |-> Put(output_map, name, run.files[output_path]),
                      output_path |-> <<output_path>>]

\* The history record of one call of execute().
LogEntry(fr, resp, r) ==
    [art |-> file_path[1].name, agent_name |-> fr.agent_name, input_file |-> fr.input_file,
     previous_agents |-> fr.previous_agents, previous_outputs |-> r.previous_outputs,
     ran |-> r.ran, outcome |-> IF r.raised THEN "failed" ELSE "ok",
     called |-> r.called, context_vars |-> r.context_vars, messages |-> r.messages,
     response |-> IF r.called THEN [kind |-> resp.kind, fenced |-> resp.fenced]
                  ELSE [kind |-> "none", fenced |-> FALSE],
     cause |-> IF ~r.raised THEN "none" ELSE IF ~r.ran THEN "lookup"
               ELSE IF ~r.called THEN "prompt"
               ELSE IF resp.kind = "error" THEN "generation" ELSE "extraction",
     output |-> IF r.raised THEN <<>> ELSE <<r.output_map[fr.agent_name]>>,
     output_path |-> r.output_path,
     parent |-> fr.parent, depth |-> Len(stack)]

\* Mutant of ExceptClause: the exception is not caught and leaves
\* run_orchestration.
ExceptReraise(stk) == [stack |-> <<>>, pc |-> "aborted"]

\* Mutant of ExceptClause: the exception is caught one call up, by the caller
\* of the call that raised, which returns in its turn.
ExceptUnwindsCaller(stk) ==
    IF Len(stk) = 1 THEN [stack |-> <<>>, pc |-> "files"]
    ELSE [stack |-> Front(Front(stk)), pc |-> IF Len(stk) = 2 THEN "files" ELSE "exec"]

\* except Exception: logger.error(...); return  (lines 148-150): the call that
\* raised returns to its caller, which goes on.
ExceptClause(stk) ==
    [stack |-> Front(stk), pc |-> IF Len(stk) = 1 THEN "files" ELSE "exec"]

\* Mutant of Mkdir: the folder is made afresh, without the entries it had.
MkdirFresh(fs, d) == [p \in {q \in DOMAIN fs : q.dir # d} |-> fs[p]]

\* output_subfolder.mkdir(parents=True, exist_ok=True) (line 80): the files of
\* storage after it; a folder that exists keeps its entries.
Mkdir(fs, d) == fs

\* Mutant of NewOutputMap: the map of the file before is kept.
KeptOutputMap(om) == om

\* output_map = {} (line 84): the map a file's traversal starts with, whatever
\* the map of the file before held.
NewOutputMap(om) == Empty

\* Lines 6-64: the configuration is read, one Agent is built per key of the
\* flow, the first key becomes the initial agent, both folders are created.
Startup ==
    /\ pc = "start"
    /\ \E readable \in BOOLEAN :
        IF ~readable \/ flow.keys = <<>>
        THEN /\ pc' = "aborted"
             /\ agents' = IF readable THEN Range(flow.keys) ELSE agents
             /\ UNCHANGED <<initial_agent, dirs, remaining>>
        ELSE /\ pc' = "files"
             /\ agents' = Range(flow.keys)
             /\ initial_agent' = <<flow.keys[1]>>
             /\ dirs' = dirs \cup {RepoDir, OutRoot}
             /\ remaining' = {p \in DOMAIN files : p.dir = RepoDir /\ p.name.ext # ""}
    /\ UNCHANGED <<flow, config, files, file_path, output_map, stack, log>>
    /\ UNCHANGED <<loaderVars, probe, first_run, prompts>>

\* Lines 67-69: the loop yields __init__.py, which is skipped.
SkipFile ==
    /\ pc = "files"
    /\ \E p \in remaining :
        /\ p.name = InitPy
        /\ remaining' = remaining \ {p}
    /\ UNCHANGED <<pc, flow, config, agents, initial_agent, files, dirs, file_path,
                   output_map, stack, log>>
    /\ UNCHANGED <<loaderVars, probe, first_run, prompts>>

\* Lines 67-87 and 152-157: the loop yields a file; its output subfolder is
\* created, output_map starts empty and execute(initial_agent, file_path) is called.
StartFile ==
    /\ pc = "files"
    /\ \E p \in remaining :
        /\ p.name # InitPy
        /\ remaining' = remaining \ {p}
        /\ file_path' = <<p>>
        /\ dirs' = dirs \cup {OutputSubfolder(p)}
        /\ files' = Mkdir(files, OutputSubfolder(p))
        /\ output_map' = NewOutputMap(output_map)
        /\ stack' = <<CallFrame(initial_agent[1], p, <<>>, 0)>>
        /\ pc' = "exec"
    /\ UNCHANGED <<flow, config, agents, initial_agent, log>>
    /\ UNCHANGED <<loaderVars, probe, first_run, prompts>>

\* Lines 88-143 without an exception: the agent ran, its output file was read
\* back and recorded; the call is now at its loop over the successors.
ExecuteReturns ==
    /\ pc = "exec" /\ Last(stack).pc = "call"
    /\ \E resp \in LLMResponses(Len(log) + 1) :
        LET fr == Last(stack)
            r == TryBody(fr, resp)
        IN  /\ ~r.raised
            /\ files' = r.files
            /\ dirs' = r.dirs
            /\ output_map' = r.output_map
            /\ log' = Append(log, LogEntry(fr, resp, r))
            /\ stack' = Append(Front(stack),
                    [fr EXCEPT !.pc = "loop", !.output_path = r.output_path,
                               !.id = Len(log) + 1])
    /\ UNCHANGED <<pc, flow, config, agents, initial_agent, remaining, file_path>>
    /\ UNCHANGED <<loaderVars, probe, first_run, prompts>>

\* Lines 88-143 raising, then lines 148-150.
ExecuteRaises ==
    /\ pc = "exec" /\ Last(stack).pc = "call"
    /\ \E resp \in LLMResponses(Len(log) + 1) :
        LET fr == Last(stack)
            r == TryBody(fr, resp)
        IN  /\ r.raised
            /\ files' = r.files
            /\ dirs' = r.dirs
            /\ output_map' = r.output_map
            /\ log' = Append(log, LogEntry(fr, resp, r))
            /\ stack' = ExceptClause(stack).stack
            /\ pc' = ExceptClause(stack).pc
    /\ UNCHANGED <<flow, config, agents, initial_agent, remaining, file_path>>
    /\ UNCHANGED <<loaderVars, probe, first_run, prompts>>

\* Lines 146-147: the loop calls execute for the next successor.
CallNext ==
    /\ pc = "exec" /\ Last(stack).pc = "loop"
    /\ LET fr == Last(stack)
           succ == FlowGet(flow, fr.agent_name)
       IN  /\ fr.idx <= Len(succ)
           /\ stack' = Append(Front(stack), [fr EXCEPT !.idx = fr.idx + 1])
                       \o <<CallFrame(succ[fr.idx], fr.output_path[1],
                                      fr.previous_agents \o <<fr.agent_name>>, fr.id)>>
    /\ UNCHANGED <<pc, flow, config, agents, initial_agent, files, dirs, remaining,
                   file_path, output_map, log>>
    /\ UNCHANGED <<loaderVars, probe, first_run, prompts>>

\* Line 146 with the successors exhausted: execute returns.
Return ==
    /\ pc = "exec" /\ Last(stack).pc = "loop"
    /\ Last(stack).idx > Len(FlowGet(flow, Last(stack).agent_name))
    /\ stack' = Front(stack)
    /\ pc' = IF Len(stack) = 1 THEN "files" ELSE "exec"
    /\ UNCHANGED <<flow, config, agents, initial_agent, files, dirs, remaining,
                   file_path, output_map, log>>
    /\ UNCHANGED <<loaderVars, probe, first_run, prompts>>

\* Line 67 with the folder exhausted: run_orchestration returns.
Finish ==
    /\ pc = "files" /\ remaining = {}
    /\ pc' = "done"
    /\ UNCHANGED <<flow, config, agents, initial_agent, files, dirs, remaining,
                   file_path, output_map, stack, log>>
    /\ UNCHANGED <<loaderVars, probe, first_run, prompts>>

\* The names of the files under the output root, each with its folder.
OutputNames == {p \in DOMAIN files : p.dir # RepoDir}

\* run_orchestration has returned and is called again, in a new process, on
\* the storage the first run left: same configuration, same repository folder.
Rerun ==
    /\ pc = "done" /\ first_run = <<>>
    /\ first_run' = <<[names |-> OutputNames, calls |-> Len(log)]>>
    /\ pc' = "start"
    /\ agents' = {}
    /\ initial_agent' = <<>>
    /\ file_path' = <<>>
    /\ output_map' = Empty
    /\ UNCHANGED <<flow, config, files, dirs, remaining, stack, log>>
    /\ UNCHANGED <<loaderVars, probe, prompts>>

\* ---------------------------------------------------------------- config_loader.py

\* A stored file: absent, or present with a document json.load can parse
\* (json = <<document>>) or with text it cannot parse (json = <<>>).
Absent == [exists |-> FALSE, json |-> <<>>]
Malformed == [exists |-> TRUE, json |-> <<>>]
Document(d) == [exists |-> TRUE, json |-> <<d>>]

\* The files of the test fixture (test_config_loader.py:30-48) and the three
\* default locations, which are present or not.
FixtureDisk(withDefaults) ==
    [p \in {"default_config.json", "agent_config.json", "flow.json", "invalid_json.json",
            "non_existent.json", "config/default_config.json",
            "config/agent_config.json", "config/flow.json"} |->
        CASE p = "default_config.json" -> Document("dummy_default_data")
          [] p = "agent_config.json" -> Document("dummy_agent_data")
          [] p = "flow.json" -> Document("dummy_flow_data")
          [] p = "invalid_json.json" -> Malformed
          [] p = "non_existent.json" -> Absent
          [] OTHER -> IF withDefaults THEN Document(p) ELSE Absent]

\* The config_paths a caller passes: None (here the empty mapping, which
\* `config_paths or default_paths` treats alike) or one path per configuration.
NoPaths == [k \in {} |-> ""]
ConfigPaths ==
    {NoPaths} \cup
    [default_config : {"default_config.json", "invalid_json.json", "non_existent.json"},
     agent_config : {"agent_config.json", "invalid_json.json", "non_existent.json"},
     flow_config : {"flow.json", "invalid_json.json", "non_existent.json"}]

\* default_paths (lines 30-34)
default_paths ==
    [default_config |-> "config/default_config.json",
     agent_config |-> "config/agent_config.json",
     flow_config |-> "config/flow.json"]

\* config_paths or default_paths (line 37)
effective_config_paths(config_paths) ==
    IF DOMAIN config_paths = {} THEN default_paths ELSE config_paths

\* ConfigLoader._load_config_file: the exception it raises ("none": it
\* returns) and the data it returns.
load_config_file(file_path_str) ==
    IF ~disk[file_path_str].exists
    THEN [raised |-> "FileNotFoundError", data |-> <<>>]
    ELSE IF disk[file_path_str].json = <<>>
         THEN [raised |-> "JSONDecodeError", data |-> <<>>]
         ELSE [raised |-> "none", data |-> disk[file_path_str].json]

\* Mutant of LoadOrder: the flow file is loaded first, the default file last.
ReversedLoadOrder == <<"flow_config", "agent_config", "default_config">>

\* The order in which _load_configs loads the three files (lines 41-43).
LoadOrder == <<"default_config", "agent_config", "flow_config">>

\* ConfigLoader._load_configs from the k-th file on: each file loaded becomes
\* an attribute of the object; the first exception ends the loading and
\* leaves the attributes set so far.
RECURSIVE LoadFrom(_, _, _, _)
LoadFrom(paths, k, attrs, n) ==
    IF k > Len(LoadOrder) THEN [raised |-> "none", attrs |-> attrs, reads |-> n]
    ELSE LET r == load_config_file(paths[LoadOrder[k]])
         IN IF r.raised # "none"
            THEN [raised |-> r.raised, attrs |-> attrs, reads |-> n + 1]
            ELSE LoadFrom(paths, k + 1, Put(attrs, LoadOrder[k], r.data[1]), n + 1)

load_configs(config_paths) == LoadFrom(effective_config_paths(config_paths), 1, NoPaths, 0)

\* Mutant of IsNone: the cached instance is never looked at.
AlwaysNone(inst) == TRUE

\* if cls._instance is None (line 12)
IsNone(inst) == inst = 0

\* The getters: <<value>>, or <<>> when the attribute was never set
\* (AttributeError).
get_default_config(obj) ==
    IF "default_config" \in DOMAIN obj THEN <<obj.default_config>> ELSE <<>>
get_agent_config(obj) ==
    IF "agent_config" \in DOMAIN obj THEN <<obj.agent_config>> ELSE <<>>
get_flow_config(obj) ==
    IF "flow_config" \in DOMAIN obj THEN <<obj.flow_config>> ELSE <<>>

\* ConfigLoader(config_paths), that is ConfigLoader.__new__ (lines 11-21): with
\* no cached instance a new object is allocated and cached, then loaded; an
\* exception of the loading leaves the class as it is at that point.
Construct ==
    /\ \E config_paths \in ConfigPaths :
        IF IsNone(instance)
        THEN /\ Len(heap) < MaxInstances
             /\ LET r == load_configs(config_paths)
                    obj == Len(heap) + 1
                IN /\ instance' = obj
                   /\ heap' = Append(heap, r.attrs)
                   /\ reads' = reads + r.reads
                   /\ last' = [op |-> "construct", config_paths |-> config_paths,
                               before |-> instance, readsBefore |-> reads,
                               raised |-> r.raised,
                               returned |-> IF r.raised = "none" THEN obj ELSE 0]
        ELSE /\ last' = [op |-> "construct", config_paths |-> config_paths,
                         before |-> instance, readsBefore |-> reads,
                         raised |-> "none", returned |-> instance]
             /\ UNCHANGED <<instance, heap, reads>>
    /\ UNCHANGED disk
    /\ UNCHANGED <<orchVars, probe, first_run, prompts>>

\* ConfigLoader._instance = None (test_config_loader.py:54, 64, 70)
Reset ==
    /\ instance' = 0
    /\ last' = [op |-> "reset", config_paths |-> NoPaths, before |-> instance,
                readsBefore |-> reads, raised |-> "none", returned |-> 0]
    /\ UNCHANGED <<disk, heap, reads>>
    /\ UNCHANGED <<orchVars, probe, first_run, prompts>>

NoCall == [op |-> "none", config_paths |-> NoPaths, before |-> 0, readsBefore |-> 0,
           raised |-> "none", returned |-> 0]

LoaderIdle ==
    /\ disk = FixtureDisk(TRUE) /\ instance = 0 /\ heap = <<>> /\ reads = 0
    /\ last = NoCall

\* ---------------------------------------------------------------- pure functions

\* The settings blocks the merge is applied to: any of three keys, absent or
\* with one of two values.
SettingKeys == {"output_file_suffix", "model", "temperature"}
SettingValues == {"x", "y"}
SettingsBlocks == UNION {[K -> SettingValues] : K \in SUBSET SettingKeys}

NoProbe == [op |-> "none"]

\* orchestrator.py:38 (and base_agent.py:22) for a step "B": default_config
\* holds a default_agent_config block; agent_config holds a block for B or none.
MergeSettings ==
    /\ probe = NoProbe
    /\ \E d \in SettingsBlocks, o \in SettingsBlocks, has \in BOOLEAN :
        LET cfg == [default |-> d, agents |-> IF has THEN [B |-> o] ELSE Empty]
        IN probe' = [op |-> "merge", default |-> d, has |-> has,
                     override |-> IF has THEN o ELSE Empty,
                     merged |-> merged_config(cfg, "B")]
    /\ UNCHANGED <<orchVars, loaderVars, first_run, prompts>>

\* ---------------------------------------------------------------- specifications

Init ==
    /\ pc = "start"
    /\ flow \in Flows
    /\ config \in Configs
    /\ \E repo \in Repos :
        /\ files = [p \in {Path(RepoDir, nm) : nm \in repo.names} |-> Raw(p.name)]
        /\ dirs = IF repo.exists THEN {RepoDir} ELSE {}
    /\ agents = {}
    /\ initial_agent = <<>>
    /\ remaining = {}
    /\ file_path = <<>>
    /\ output_map = Empty
    /\ stack = <<>>
    /\ log = <<>>
    /\ LoaderIdle
    /\ probe = NoProbe
    /\ first_run = <<>>
    /\ prompts = NoPrompts

Next ==
    \/ Startup
    \/ SkipFile
    \/ StartFile
    \/ ExecuteReturns
    \/ ExecuteRaises
    \/ CallNext
    \/ Return
    \/ Finish

Spec == Init /\ [][Next]_vars

\* Two runs in a row over a folder with one input file and __init__.py.
RerunFlows == {Chain, Shortcut, Fixture, SelfLoop}

InitRerun ==
    /\ Init
    /\ flow \in RerunFlows
    /\ DOMAIN files = {Path(RepoDir, FName("a", ".txt")), Path(RepoDir, InitPy)}

NextRerun ==
    \/ Next
    \/ Rerun

SpecRerun == InitRerun /\ [][NextRerun]_vars

\* Runs with a prompts folder: one input file and __init__.py, and for every
\* step of the flow the same pair of files: system.txt or none, and no user
\* template, a template with one named field (input_content, the name of the
\* first step, or a name no context holds), or one with a positional field.
PromptFlows == {Chain, Shortcut, Diamond, SelfLoop}
PromptOptions(fl) ==
    {[system |-> b, template |-> t] :
        b \in BOOLEAN,
        t \in {NoTemplate, NamedTemplate({"input_content"}), NamedTemplate({fl.keys[1]}),
                NamedTemplate({"notes"}), PositionalTemplate}}
PromptStores(fl) == {[k \in Range(fl.keys) |-> o] : o \in PromptOptions(fl)}

InitPrompt ==
    /\ pc = "start"
    /\ flow \in PromptFlows
    /\ config = Plain
    /\ files = [p \in {Path(RepoDir, FName("a", ".txt")), Path(RepoDir, InitPy)} |->
                    Raw(p.name)]
    /\ dirs = {RepoDir}
    /\ agents = {}
    /\ initial_agent = <<>>
    /\ remaining = {}
    /\ file_path = <<>>
    /\ output_map = Empty
    /\ stack = <<>>
    /\ log = <<>>
    /\ LoaderIdle
    /\ probe = NoProbe
    /\ first_run = <<>>
    /\ prompts \in PromptStores(flow)

SpecPrompt == InitPrompt /\ [][Next]_vars

\* The ConfigLoader on its own: its callers construct it, read it and reset it
\* in any order; no orchestration runs.
OrchIdle ==
    /\ pc = "start" /\ flow = NoSteps /\ config = Plain /\ files = Empty /\ dirs = {}
    /\ agents = {} /\ initial_agent = <<>> /\ remaining = {} /\ file_path = <<>>
    /\ output_map = Empty /\ stack = <<>> /\ log = <<>>

InitLoader ==
    /\ OrchIdle
    /\ disk \in {FixtureDisk(TRUE), FixtureDisk(FALSE)}
    /\ instance = 0 /\ heap = <<>> /\ reads = 0
    /\ last = NoCall
    /\ probe = NoProbe
    /\ first_run = <<>>
    /\ prompts = NoPrompts

NextLoader ==
    \/ Construct
    \/ Reset

SpecLoader == InitLoader /\ [][NextLoader]_vars

\* The naming settings, step names and input paths get_output_file_name is
\* applied to.
NamingBlocks ==
    {Merge(f, x) :
        f \in {Empty, [output_file |-> FName("out", ".txt")],
                [output_file |-> FName("result", ".md")]},
        x \in {Empty, [output_file_suffix |-> "_v2"], [output_file_suffix |-> "_final"]}}
NamingSteps == {"A", "summarize", "report"}
NamingInputs ==
    {Path(RepoDir, FName("report", ".md")), Path(RepoDir, FName("a", ".txt")),
     Path(OutRoot \o <<"a">>, FName("a_v2", "")),
     Path(OutRoot \o <<"a">>, FName("extract", ".txt"))}

\* agent.py:71-88 applied to one step, its settings and its input path.
OutputName ==
    /\ probe = NoProbe
    /\ \E name \in NamingSteps, cfg \in NamingBlocks, input_path \in NamingInputs :
        probe' = [op |-> "name", name |-> name, cfg |-> cfg, input_path |-> input_path,
                  result |-> get_output_file_name(name, cfg, input_path)]
    /\ UNCHANGED <<orchVars, loaderVars, first_run, prompts>>

\* The pure functions on their own, applied to inputs drawn from bounded sets.
InitPure ==
    OrchIdle /\ LoaderIdle /\ probe = NoProbe /\ first_run = <<>> /\ prompts = NoPrompts

NextPure ==
    \/ MergeSettings
    \/ OutputName

SpecPure == InitPure /\ [][NextPure]_vars

\* ---------------------------------------------------------------- graph notions

\* The steps a flow mapping names, as a key or as a successor.
Nodes(fl) == DOMAIN fl.succ \cup UNION {Range(fl.succ[k]) : k \in DOMAIN fl.succ}
Edge(fl, a, b) == a \in DOMAIN fl.succ /\ b \in Range(fl.succ[a])
RECURSIVE Closure(_, _)
Closure(fl, S) ==
    LET T == S \cup {b \in Nodes(fl) : \E a \in S : Edge(fl, a, b)}
    IN IF T = S THEN S ELSE Closure(fl, T)
\* The steps reachable from a by one edge or more.
Descendants(fl, a) == Closure(fl, Range(FlowGet(fl, a)))
HasCycle(fl) == \E a \in Nodes(fl) : a \in Descendants(fl, a)
\* The steps no edge points to.
NoIncoming(fl) == {b \in Nodes(fl) : \A a \in Nodes(fl) : ~Edge(fl, a, b)}

\* The input files the loop processes: what glob("*.*") matches, less __init__.py.
Eligible == {p \in DOMAIN files : p.dir = RepoDir /\ p.name.ext # "" /\ p.name # InitPy}

\* The log indices of the calls on the path from the root call to call i, root first.
RECURSIVE AncestorIds(_)
AncestorIds(i) ==
    IF log[i].parent = 0 THEN <<>>
    ELSE Append(AncestorIds(log[i].parent), log[i].parent)

\* The steps called from call i, in call order.
RECURSIVE ChildSteps(_, _)
ChildSteps(i, n) ==
    IF n = 0 THEN <<>>
    ELSE IF log[n].parent = i THEN Append(ChildSteps(i, n - 1), log[n].agent_name)
         ELSE ChildSteps(i, n - 1)

\* Call i of execute() has returned.
Returned(i) == \A k \in DOMAIN stack : stack[k].id # i

TypeOK == pc \in {"start", "files", "exec", "done", "aborted"}

\* ---------------------------------------------------------------- claims

\* C1: in an acyclic flow with a single root and no failed step, no (artifact,
\* step) pair is executed more than once, also when the step is reachable from
\* the root by more than one path.
C1_AtMostOncePerArtifact ==
    (/\ ~HasCycle(flow)
     /\ Cardinality(NoIncoming(flow)) = 1
     /\ \A i \in DOMAIN log : log[i].outcome = "ok")
    => \A i, j \in DOMAIN log :
          (log[i].art = log[j].art /\ log[i].agent_name = log[j].agent_name) => i = j

\* C2: in an acyclic flow, the context handed to the step executor holds, root
\* first, exactly one entry per ancestor call on the path from the root, with
\* the output that ancestor call produced for the same input file, and nothing else.
C2_ContextIsPath ==
    ~HasCycle(flow) =>
        \A i \in DOMAIN log :
            log[i].ran =>
                LET anc == AncestorIds(i)
                IN /\ log[i].previous_outputs =
                        [k \in 1..Len(anc) |->
                            <<log[anc[k]].agent_name, log[anc[k]].output[1]>>]
                   /\ \A k \in 1..Len(anc) :
                        log[anc[k]].art = log[i].art /\ log[anc[k]].outcome = "ok"

\* C2 witness: D of the diamond is run below C while output_map also holds the
\* outputs of B and of the earlier run of D, which are not on its path.
C2_Witness ==
    /\ flow = Diamond
    /\ \E i \in DOMAIN log :
        /\ log[i].ran /\ log[i].agent_name = "D"
        /\ log[i].previous_agents = <<"A", "C">>
        /\ Len(log[i].previous_outputs) = 2
        /\ \E j \in 1..(i - 1) : log[j].art = log[i].art /\ log[j].agent_name = "B"
                                  /\ log[j].outcome = "ok"

\* C3: with a cycle in the flow no step is ever dispatched to the step executor.
C3_CycleNeverDispatched ==
    HasCycle(flow) => \A i \in DOMAIN log : ~log[i].ran

\* C4: a failed step never aborts the run; every eligible input file gets its
\* traversal; and in the extract->summarize flow over a.txt and b.txt, when
\* extract fails for a.txt and nothing fails for b.txt, the finished run has
\* written a summarize output under b's directory and nothing under a's.
C4_FailureIsolation ==
    LET a == FName("a", ".txt")
        b == FName("b", ".txt")
    IN
    /\ pc = "aborted" => log = <<>>
    /\ pc = "done" =>
        \A p \in Eligible : \E i \in DOMAIN log : log[i].art = p.name /\ log[i].parent = 0
    /\ (/\ pc = "done" /\ flow = Chain
        /\ {Path(RepoDir, a), Path(RepoDir, b)} \subseteq Eligible
        /\ \E i \in DOMAIN log : log[i].art = a /\ log[i].agent_name = "extract"
                                  /\ log[i].outcome = "failed"
        /\ \A i \in DOMAIN log : log[i].art = b => log[i].outcome = "ok")
       => /\ \E i \in DOMAIN log :
                /\ log[i].art = b /\ log[i].agent_name = "summarize"
                /\ log[i].output_path[1].dir = OutRoot \o <<"b">>
                /\ log[i].output_path[1] \in DOMAIN files
                /\ files[log[i].output_path[1]] = log[i].output[1]
          /\ \A i \in DOMAIN log : log[i].art = a => log[i].agent_name # "summarize"
          /\ \A p \in DOMAIN files : p.dir # OutRoot \o <<"a">>

\* C4 witness: a.txt was processed first and extract failed for it, b.txt went
\* through both steps, and the run is over.
C4_Witness ==
    /\ pc = "done" /\ flow = Chain /\ Len(log) = 3
    /\ log[1].art = FName("a", ".txt") /\ log[1].outcome = "failed" /\ log[1].ran
    /\ log[3].art = FName("b", ".txt") /\ log[3].agent_name = "summarize"
    /\ log[3].outcome = "ok"

\* C5, state part: a call of execute() is only ever made by a call that
\* completed its own step, and a completed call that has returned has called
\* every declared successor, in order, whatever happened to each of them.
C5_State ==
    \A i \in DOMAIN log :
        /\ log[i].parent # 0 => log[log[i].parent].outcome = "ok"
        /\ log[i].outcome = "failed" => ChildSteps(i, Len(log)) = <<>>
        /\ (log[i].outcome = "ok" /\ Returned(i)) =>
                ChildSteps(i, Len(log)) = FlowGet(flow, log[i].agent_name)

\* C5, step part: the step in which a call fails removes that call alone and
\* leaves the recorded outputs and the stored files as they were.
C5_Step ==
    (Len(log') = Len(log) + 1 /\ log'[Len(log')].outcome = "failed") =>
        /\ stack' = Front(stack)
        /\ output_map' = output_map
        /\ files' = files

\* C5: a failed step dispatches no successor, its later siblings are still
\* dispatched by the parent, and the outputs recorded and stored before the
\* failure stay recorded and stored.
C5_BranchAbandoned == [](C5_State) /\ [][C5_Step]_vars

\* C5 witness: in the tree, B and its successor E completed, then C failed,
\* then D was still run under the same parent, and B's output is still recorded
\* and stored.
C5_Witness ==
    /\ flow = Tree /\ Len(log) >= 5
    /\ log[2].agent_name = "B" /\ log[2].outcome = "ok"
    /\ log[3].agent_name = "E" /\ log[3].outcome = "ok"
    /\ log[4].agent_name = "C" /\ log[4].outcome = "failed" /\ log[4].ran
    /\ log[5].agent_name = "D" /\ log[5].parent = log[4].parent /\ log[5].ran
    /\ "B" \in DOMAIN output_map /\ output_map["B"] = log[2].output[1]
    /\ log[2].output_path[1] \in DOMAIN files

\* C6: when exactly one step of the flow has no incoming edge, every traversal
\* starts from that step, whatever the order of the keys.
C6_StartsAtSourceStep ==
    Cardinality(NoIncoming(flow)) = 1 =>
        \A i \in DOMAIN log : log[i].parent = 0 => log[i].agent_name \in NoIncoming(flow)

\* C7: a flow with no step, or more than one step, without an incoming edge is
\* rejected: no step is dispatched.
C7_RootCountRejected ==
    Cardinality(NoIncoming(flow)) # 1 => \A i \in DOMAIN log : ~log[i].ran

\* The latest operation was a ConfigLoader(...) call that found no cached instance.
FreshConstruct == last.op = "construct" /\ last.before = 0
\* The latest operation was a ConfigLoader(...) call that found a cached instance.
CachedConstruct == last.op = "construct" /\ last.before # 0
\* The path the latest call used for configuration k, and whether the file
\* there is absent or unparsable.
PathOf(k) == effective_config_paths(last.config_paths)[k]
Faulty(k) == ~disk[PathOf(k)].exists \/ disk[PathOf(k)].json = <<>>
FullyLoaded(obj) == DOMAIN obj = {"default_config", "agent_config", "flow_config"}

\* C8: every ConfigLoader(...) call that returns an instance returns one on
\* which the default, agent and flow configurations are all loaded, also after
\* an earlier call failed.
C8_ReturnedIsLoaded ==
    (last.op = "construct" /\ last.raised = "none") => FullyLoaded(heap[last.returned])

\* C9: while an instance is cached, a ConfigLoader(...) call returns that very
\* instance, reads nothing from storage and changes no object; with no cached
\* instance (at first, and after each reset) the call reads storage again.
C9_Idempotent ==
    /\ CachedConstruct =>
        /\ last.raised = "none" /\ last.returned = last.before
        /\ instance = last.before
        /\ reads = last.readsBefore
    /\ FreshConstruct => reads > last.readsBefore
    /\ last.op = "reset" => instance = 0 /\ reads = last.readsBefore

\* C9 witness: a first instance was loaded, the cache was reset, a second
\* instance was loaded in full from storage, and the latest call returned that
\* second instance from the cache.
C9_Witness ==
    /\ CachedConstruct /\ Len(heap) = 2 /\ last.returned = 2
    /\ FullyLoaded(heap[1]) /\ FullyLoaded(heap[2]) /\ reads = 6

\* C10 as stated: with no cached instance, the call fails with
\* FileNotFoundError whenever one of the three files does not exist, with
\* JSONDecodeError whenever one of them exists and cannot be parsed, and
\* otherwise the getters return the parsed default, agent and flow documents.
C10_AsStated ==
    FreshConstruct =>
        /\ (\E k \in {"default_config", "agent_config", "flow_config"} :
                ~disk[PathOf(k)].exists) => last.raised = "FileNotFoundError"
        /\ (\E k \in {"default_config", "agent_config", "flow_config"} :
                disk[PathOf(k)].exists /\ disk[PathOf(k)].json = <<>>)
            => last.raised = "JSONDecodeError"
        /\ (\A k \in {"default_config", "agent_config", "flow_config"} : ~Faulty(k))
            => /\ last.raised = "none"
               /\ get_default_config(heap[last.returned]) = disk[PathOf("default_config")].json
               /\ get_agent_config(heap[last.returned]) = disk[PathOf("agent_config")].json
               /\ get_flow_config(heap[last.returned]) = disk[PathOf("flow_config")].json

\* The first of the default, agent and flow files, in that order, that is
\* absent or unparsable: <<>> when none is.
FirstFaulty ==
    IF Faulty("default_config") THEN <<"default_config">>
    ELSE IF Faulty("agent_config") THEN <<"agent_config">>
    ELSE IF Faulty("flow_config") THEN <<"flow_config">>
    ELSE <<>>

\* C10 amended: with no cached instance, the call fails with the error of the
\* first file, in the order default, agent, flow, that is absent or unparsable:
\* FileNotFoundError when that file does not exist, JSONDecodeError when it
\* exists and cannot be parsed; when all three exist and parse, the getters
\* return the parsed default, agent and flow documents.
C10_FirstFaultDecides ==
    FreshConstruct =>
        IF FirstFaulty # <<>>
        THEN /\ last.raised = IF disk[PathOf(FirstFaulty[1])].exists
                              THEN "JSONDecodeError" ELSE "FileNotFoundError"
             /\ last.returned = 0
        ELSE /\ last.raised = "none"
             /\ get_default_config(heap[last.returned]) = disk[PathOf("default_config")].json
             /\ get_agent_config(heap[last.returned]) = disk[PathOf("agent_config")].json
             /\ get_flow_config(heap[last.returned]) = disk[PathOf("flow_config")].json

\* C10 witness: the call named an unparsable default file and an absent agent
\* file, and failed with the error of the former.
C10_Witness ==
    /\ FreshConstruct
    /\ last.config_paths # NoPaths
    /\ last.config_paths.default_config = "invalid_json.json"
    /\ last.config_paths.agent_config = "non_existent.json"
    /\ last.raised = "JSONDecodeError"

\* C11: the merged settings of a step hold, for each key of its override
\* block, the override value; for each key only in the default block, the
\* default value; and no other key. Without an override block they are the
\* default settings.
C11_OverrideWins ==
    probe.op = "merge" =>
        /\ DOMAIN probe.merged = DOMAIN probe.default \cup DOMAIN probe.override
        /\ \A k \in DOMAIN probe.override : probe.merged[k] = probe.override[k]
        /\ \A k \in DOMAIN probe.default \ DOMAIN probe.override :
                probe.merged[k] = probe.default[k]
        /\ ~probe.has => probe.merged = probe.default

\* C11 witness: a key set differently in both blocks, one only in the default
\* block and one only in the override block.
C11_Witness ==
    /\ probe.op = "merge" /\ probe.has
    /\ probe.default = [model |-> "x", temperature |-> "x"]
    /\ probe.override = [model |-> "y", output_file_suffix |-> "y"]
    /\ probe.merged = [model |-> "y", temperature |-> "x", output_file_suffix |-> "y"]

\* The file name as one string: the stem followed by the suffix.
NameString(f) == f.stem \o f.ext

\* C12: the output name is the explicit output_file when the settings have one
\* (also when they have a suffix); otherwise the stem of the input path followed
\* by output_file_suffix when that is set, whatever the step is called;
\* otherwise the step name followed by ".txt". With suffix "_v2" and input
\* report.md it is report_v2.
C12_OutputName ==
    probe.op = "name" =>
        /\ "output_file" \in DOMAIN probe.cfg => probe.result = probe.cfg.output_file
        /\ ("output_file" \notin DOMAIN probe.cfg
                /\ "output_file_suffix" \in DOMAIN probe.cfg)
            => NameString(probe.result) =
                    probe.input_path.name.stem \o probe.cfg.output_file_suffix
        /\ DOMAIN probe.cfg = {} => NameString(probe.result) = probe.name \o ".txt"
        /\ (/\ probe.cfg = [output_file_suffix |-> "_v2"]
            /\ NameString(probe.input_path.name) = "report.md")
            => NameString(probe.result) = "report_v2"

\* C12 witness: a step that is not called report, with suffix "_v2" and input
\* report.md, is given the name report_v2.
C12_Witness ==
    /\ probe.op = "name" /\ probe.name = "summarize"
    /\ probe.cfg = [output_file_suffix |-> "_v2"]
    /\ probe.input_path = Path(RepoDir, FName("report", ".md"))
    /\ NameString(probe.result) = "report_v2"

\* C13: a call of execute() whose agent ran on a failed completion call, or on
\* a text without a fenced block, fails: it has no output, it leaves every
\* stored file as it was and it leaves output_map as it was, for its own step
\* and for every other step.
C13_FailsHard ==
    [][(/\ Len(log') = Len(log) + 1
        /\ Last(log').ran
        /\ (Last(log').response.kind = "error" \/ ~Last(log').response.fenced))
       => /\ Last(log').outcome = "failed"
          /\ Last(log').output = <<>>
          /\ Last(log').output_path = <<>>
          /\ files' = files
          /\ output_map' = output_map]_vars

\* C13 witness: C of the tree gets a text without a fenced block after B ran;
\* output_map still holds what A and B recorded and nothing for C.
C13_Witness ==
    /\ flow = Tree
    /\ \E i \in DOMAIN log :
        /\ log[i].agent_name = "C" /\ log[i].ran
        /\ log[i].response = [kind |-> "text", fenced |-> FALSE]
        /\ log[i].outcome = "failed"
        /\ i = Len(log)
        /\ DOMAIN output_map = {"A", "B"}
        /\ \A p \in DOMAIN files : p.name # FName("C", ".txt")

\* The step executions among the calls I that succeeded, each named by its
\* input file, the path of steps it was reached by and its step.
Succeeded(I) ==
    {<<log[i].art, log[i].previous_agents, log[i].agent_name>> :
        i \in {j \in I : log[j].outcome = "ok"}}

\* C14 as stated: after a second run over what the first run left, the output
\* files have the names they had after the first run, whatever the completion
\* capability returned in either run.
C14_SameNamesAfterRerun ==
    (pc = "done" /\ first_run # <<>>) => OutputNames = first_run[1].names

\* C14 amended: a step execution that succeeds in both runs writes the same file
\* in both; no file of the first run is gone after the second; and when every
\* step execution that succeeds in the second run succeeded in the first, the
\* output files have the names they had after the first run, whatever the
\* fenced texts were.
C14_SameNamesWhenSameStepsSucceed ==
    (pc = "done" /\ first_run # <<>>) =>
        LET n == first_run[1].calls
            run1 == 1..n
            run2 == (n + 1)..Len(log)
        IN /\ \A i \in run1, j \in run2 :
                (/\ log[i].outcome = "ok" /\ log[j].outcome = "ok"
                 /\ log[i].art = log[j].art
                 /\ log[i].previous_agents = log[j].previous_agents
                 /\ log[i].agent_name = log[j].agent_name)
                => log[i].output_path = log[j].output_path
           /\ first_run[1].names \subseteq OutputNames
           /\ Succeeded(run2) \subseteq Succeeded(run1)
                => OutputNames = first_run[1].names

\* C14 witness: both runs of the chain succeed at both steps, with different
\* texts, and leave the same two names.
C14_Witness ==
    /\ pc = "done" /\ first_run # <<>>
    /\ flow = Chain /\ config = Suffixed
    /\ Len(log) = 4 /\ first_run[1].calls = 2
    /\ \A i \in DOMAIN log : log[i].outcome = "ok"
    /\ log[1].output # log[3].output
    /\ Cardinality(OutputNames) = 2
    /\ OutputNames = first_run[1].names

\* C15: when the repository folder does not exist at startup, the run aborts
\* there and then: no folder is created, no input file is enumerated and no
\* call of execute() is made.
C15_MissingRepositoryAborts ==
    [][(pc = "start" /\ RepoDir \notin dirs)
       => /\ pc' = "aborted"
          /\ dirs' = dirs
          /\ remaining' = {} /\ stack' = <<>> /\ log' = log]_vars

\* C16: two distinct steps that ran successfully on the same input file wrote
\* to two distinct files, so neither overwrote the file of the other.
C16_OneFilePerStep ==
    \A i, j \in DOMAIN log :
        (/\ log[i].outcome = "ok" /\ log[j].outcome = "ok"
         /\ log[i].art = log[j].art
         /\ log[i].agent_name # log[j].agent_name)
        => log[i].output_path # log[j].output_path

\* C17: two distinct input files of one run have two distinct output
\* subfolders: steps that ran successfully on different input files wrote in
\* different folders, hence to different files.
C17_OwnSubfolderPerArtifact ==
    \A i, j \in DOMAIN log :
        (/\ log[i].outcome = "ok" /\ log[j].outcome = "ok"
         /\ log[i].art # log[j].art)
        => /\ log[i].output_path[1].dir # log[j].output_path[1].dir
           /\ log[i].output_path # log[j].output_path

\* C18: output_map is empty when execute() is called for the initial agent of
\* a file; the context of that call is empty; every entry of output_map and
\* every entry of the context of a call is the output of an earlier successful
\* call for the same input file.
C18_OutputMapPerArtifact ==
    /\ (pc = "exec" /\ Len(stack) = 1 /\ stack[1].pc = "call") => output_map = Empty
    /\ pc = "exec" =>
        \A p \in DOMAIN output_map :
            \E k \in DOMAIN log :
                /\ log[k].art = file_path[1].name /\ log[k].agent_name = p
                /\ log[k].output = <<output_map[p]>>
    /\ \A i \in DOMAIN log :
        /\ log[i].parent = 0 => log[i].previous_outputs = <<>>
        /\ \A n \in DOMAIN log[i].previous_outputs :
            \E k \in 1..(i - 1) :
                /\ log[k].art = log[i].art
                /\ log[k].agent_name = log[i].previous_outputs[n][1]
                /\ log[k].output = <<log[i].previous_outputs[n][2]>>

\* C18 witness: the second file of the folder is at the call of its initial
\* agent, after the first file's traversal recorded outputs; and a step of the
\* second file has been handed a context.
C18_Witness ==
    /\ flow = Tree
    /\ pc = "exec" /\ Len(stack) = 2 /\ Last(stack).pc = "call"
    /\ output_map # Empty
    /\ \E i, j \in DOMAIN log :
        /\ i < j
        /\ log[i].art # log[j].art
        /\ log[i].outcome = "ok" /\ log[i].parent # 0
        /\ log[j].parent = 0 /\ log[j].outcome = "ok"
        /\ j = Len(log)

\* The steps named in a context, in its order.
ContextKeys(ctx) == {ctx[n][1] : n \in DOMAIN ctx}

\* C19 as stated: a call that ran has in its context the output of every
\* earlier successful call made by the same parent call (an earlier sibling).
C19_LaterSiblingSeesEarlier ==
    \A i, j \in DOMAIN log :
        (/\ i < j /\ log[i].parent # 0 /\ log[i].parent = log[j].parent
         /\ log[i].outcome = "ok" /\ log[j].ran)
        => log[i].agent_name \in ContextKeys(log[j].previous_outputs)

\* C19 amended: when a successor is about to be called, output_map holds an
\* output for every earlier sibling that succeeded and for every successful
\* call below such a sibling (the output of the latest successful call of that
\* step); the context handed to a call names only steps on its own path from
\* the root, so an earlier sibling is in it only as an ancestor.
C19_SiblingsInMapNotInContext ==
    /\ (pc = "exec" /\ Last(stack).pc = "call" /\ Last(stack).parent # 0) =>
        \A i \in DOMAIN log :
            (/\ log[i].outcome = "ok"
             /\ \/ log[i].parent = Last(stack).parent
                \/ \E s \in Range(AncestorIds(i)) : log[s].parent = Last(stack).parent)
            => /\ log[i].agent_name \in DOMAIN output_map
               /\ \E m \in i..Len(log) :
                    /\ log[m].agent_name = log[i].agent_name
                    /\ log[m].output = <<output_map[log[i].agent_name]>>
    /\ \A j \in DOMAIN log :
        ContextKeys(log[j].previous_outputs) \subseteq Range(log[j].previous_agents)

\* C19 witness: in the tree, D is about to be called while output_map holds the
\* outputs of its earlier siblings B and C and of E below B; C ran with a
\* context that holds the output of A alone.
C19_Witness ==
    /\ flow = Tree
    /\ pc = "exec" /\ Last(stack).pc = "call" /\ Last(stack).agent_name = "D"
    /\ {"B", "C", "E"} \subseteq DOMAIN output_map
    /\ \E j \in DOMAIN log :
        /\ log[j].agent_name = "C" /\ log[j].outcome = "ok"
        /\ log[j].parent = Last(stack).parent
        /\ ContextKeys(log[j].previous_outputs) = {"A"}

\* C20: the call for the initial agent gets the input file of the loop; every
\* other call is made by a call that succeeded, for the same input file and for
\* one of its successors, and gets the path of the output file that call wrote;
\* while such a call is pending, its parent's output is in output_map and its
\* input file is on storage.
C20_SuccessorGetsParentOutput ==
    /\ \A i \in DOMAIN log :
        IF log[i].parent = 0
        THEN /\ log[i].input_file = Path(RepoDir, log[i].art)
             /\ log[i].agent_name = initial_agent[1]
        ELSE LET q == log[i].parent
             IN /\ q < i
                /\ log[q].outcome = "ok"
                /\ log[q].art = log[i].art
                /\ log[i].agent_name \in Range(FlowGet(flow, log[q].agent_name))
                /\ log[i].input_file = log[q].output_path[1]
    /\ \A k \in DOMAIN stack :
        (stack[k].pc = "call" /\ stack[k].parent # 0) =>
            LET q == stack[k].parent
            IN /\ q \in DOMAIN log /\ log[q].outcome = "ok"
               /\ log[q].agent_name \in DOMAIN output_map
               /\ stack[k].input_file = log[q].output_path[1]
               /\ stack[k].input_file \in DOMAIN files
               /\ stack[k].input_file.dir = OutputSubfolder(file_path[1])

\* C20 witness: summarize of the chain ran on the file extract wrote for a.txt.
C20_Witness ==
    /\ flow = Chain /\ config = Plain
    /\ Len(log) >= 2
    /\ log[1].agent_name = "extract" /\ log[1].outcome = "ok"
    /\ log[1].input_file = Path(RepoDir, FName("a", ".txt"))
    /\ log[2].agent_name = "summarize" /\ log[2].parent = 1 /\ log[2].outcome = "ok"
    /\ log[2].input_file = Path(OutRoot \o <<"a">>, FName("extract", ".txt"))

\* The successors the flow mapping lists for the step of call i.
Declared(i) ==
    IF log[i].agent_name \in DOMAIN flow.succ THEN flow.succ[log[i].agent_name] ELSE <<>>

\* C21: the calls a call has made so far are for the first successors of its
\* step, in the listed order; every call made between a call and one of the
\* calls it makes is below that call; and when a call is about to be made, it
\* is the only one that has not run its body and every call made so far below
\* its parent (its earlier siblings and the calls below them) has returned.
C21_DepthFirstDeclaredOrder ==
    /\ \A i \in DOMAIN log :
        LET made == ChildSteps(i, Len(log))
        IN /\ Len(made) <= Len(Declared(i))
           /\ made = SubSeq(Declared(i), 1, Len(made))
    /\ \A j \in DOMAIN log :
        log[j].parent # 0 =>
            \A m \in (log[j].parent + 1)..(j - 1) : log[j].parent \in Range(AncestorIds(m))
    /\ \A k \in 1..(Len(stack) - 1) : stack[k].pc = "loop"
    /\ (pc = "exec" /\ Last(stack).pc = "call" /\ Last(stack).parent # 0) =>
        \A m \in DOMAIN log :
            Last(stack).parent \in Range(AncestorIds(m))
            => /\ Returned(m)
               /\ log[m].outcome \in {"ok", "failed"}

\* C21 witness: in the tree, A, B, E below B, and C were called in that order,
\* C failed, and D is about to be called.
C21_Witness ==
    /\ flow = Tree
    /\ [i \in DOMAIN log |-> log[i].agent_name] = <<"A", "B", "E", "C">>
    /\ log[3].parent = 2 /\ log[4].parent = 1 /\ log[4].outcome = "failed"
    /\ pc = "exec" /\ Last(stack).pc = "call" /\ Last(stack).agent_name = "D"

\* C22: a call made by a completed call for a step that the flow mapping
\* names only as a successor (no key of its own), within the recursion limit,
\* is run by the step executor under the default settings and makes no call
\* itself.
C22_SuccessorOnlyStepRuns ==
    \A i \in DOMAIN log :
        (/\ log[i].parent # 0
         /\ log[i].agent_name \notin Range(flow.keys)
         /\ log[i].depth <= MaxDepth)
        => /\ log[i].ran
           /\ log[i].cause # "lookup"
           /\ ChildSteps(i, Len(log)) = <<>>

\* C23 as stated: in an acyclic flow the call for the initial agent has the
\* raw content of the input file under input_content, and every other call
\* that ran has its ancestors' outputs and no input_content.
C23_RawInputContent ==
    ~HasCycle(flow) =>
        \A i \in DOMAIN log :
            log[i].ran =>
                IF log[i].parent = 0
                THEN /\ "input_content" \in DOMAIN log[i].context_vars
                     /\ log[i].context_vars["input_content"] = Raw(log[i].art)
                ELSE "input_content" \notin DOMAIN log[i].context_vars

\* C23 amended: the call for the initial agent has under input_content the
\* content of the input file without its leading and trailing whitespace, and
\* nothing else; every other call that ran has the outputs of the steps on its
\* path, at least one, and no input_content.
C23_StrippedInputContentAtRoot ==
    \A i \in DOMAIN log :
        log[i].ran =>
            IF log[i].parent = 0
            THEN /\ DOMAIN log[i].context_vars = {"input_content"}
                 /\ log[i].context_vars["input_content"] = Strip(Raw(log[i].art))
            ELSE /\ DOMAIN log[i].context_vars = Range(log[i].previous_agents)
                 /\ DOMAIN log[i].context_vars # {}
                 /\ \A n \in DOMAIN log[i].previous_outputs :
                        log[i].context_vars[log[i].previous_outputs[n][1]] =
                            log[i].previous_outputs[n][2]
                 /\ "input_content" \notin DOMAIN log[i].context_vars

\* C23 witness: extract of the chain ran with the stripped content of a.txt and
\* summarize ran with the output of extract alone.
C23_Witness ==
    /\ flow = Chain
    /\ Len(log) >= 2
    /\ log[1].ran /\ log[1].parent = 0
    /\ log[1].context_vars["input_content"] = [stripped |-> FName("a", ".txt")]
    /\ log[2].ran /\ log[2].parent = 1
    /\ DOMAIN log[2].context_vars = {"extract"}
    /\ log[2].context_vars["extract"] = log[1].output[1]

\* C24: the conversation handed to llm.chat for a context of n entries has
\* 2 + n messages: a system message; then for each entry of the context, in the
\* order of the context, an assistant message tagged with the step of the
\* entry and holding its output; then the user message.
C24_ConversationShape ==
    \A i \in DOMAIN log :
        log[i].called =>
            LET msgs == log[i].messages
                ctx == log[i].previous_outputs
            IN /\ Len(msgs) = 2 + Len(ctx)
               /\ msgs[1].role = "system"
               /\ \A n \in 1..Len(ctx) :
                    /\ msgs[n + 1].role = "assistant"
                    /\ msgs[n + 1].content.context_from = ctx[n][1]
                    /\ msgs[n + 1].content.text = ctx[n][2]
               /\ msgs[Len(msgs)].role = "user"

\* C24 witness: D of the diamond, below B, was sent four messages: the system
\* message, the outputs of A and B in that order, and the user message.
C24_Witness ==
    /\ flow = Diamond
    /\ \E i \in DOMAIN log :
        /\ log[i].agent_name = "D" /\ log[i].called
        /\ Len(log[i].messages) = 4
        /\ log[i].messages[2].content.context_from = "A"
        /\ log[i].messages[3].content.context_from = "B"
        /\ log[i].messages[1].content = [system_of |-> "D"]

\* The user template of the step of call i holds a named field that the
\* prompt variables of the call do not.
MissingField(i) ==
    /\ PromptOf(log[i].agent_name).template.kind = "named"
    /\ ~(PromptOf(log[i].agent_name).template.fields \subseteq DOMAIN log[i].context_vars)

\* C25: a call whose agent ran without a user template has the empty user
\* prompt; one whose template names a field missing from the prompt variables
\* has the template as it is; in both cases llm.chat is called, the call
\* completes exactly when the response holds a fenced block, and a call that
\* completed has its output in the log and, once returned, has called every
\* successor of its step.
C25_TemplateDegradesGracefully ==
    \A i \in DOMAIN log :
        (log[i].ran /\ (PromptOf(log[i].agent_name).template.kind = "absent" \/ MissingField(i)))
        => /\ log[i].called
           /\ log[i].response.kind # "none"
           /\ Last(log[i].messages).content =
                IF MissingField(i)
                THEN UserPrompt(PromptOf(log[i].agent_name).template, Empty)
                ELSE EmptyPrompt
           /\ log[i].outcome = "ok"
                <=> (log[i].response.kind = "text" /\ log[i].response.fenced)
           /\ log[i].outcome = "ok" =>
                /\ log[i].output # <<>>
                /\ Returned(i) => ChildSteps(i, Len(log)) = Declared(i)

\* C25 witness: the template of the chain names the field extract, which the
\* prompt variables of extract itself do not hold; extract completed on the
\* template as it is and summarize, whose variables hold it, completed too.
C25_Witness ==
    /\ flow = Chain /\ pc = "done"
    /\ Len(log) = 2
    /\ PromptOf("extract").template = NamedTemplate({"extract"})
    /\ MissingField(1) /\ log[1].outcome = "ok"
    /\ Last(log[1].messages).content = UserPrompt(NamedTemplate({"extract"}), Empty)
    /\ log[2].parent = 1 /\ log[2].outcome = "ok" /\ ~MissingField(2)
    /\ Last(log[2].messages).content.values = [extract |-> log[1].output[1]]

\* The runs over the acyclic flows, in which every step that can be taken is
\* taken in the end: a call of the step executor returns or fails, and nothing
\* else in run_orchestration waits. A folder with two input files is run with
\* the smaller flows.
TwoFileFlows == {Chain, TwoRoots, Fixture}
InitAcyclic ==
    /\ Init
    /\ ~HasCycle(flow)
    /\ Cardinality(DOMAIN files \ {Path(RepoDir, InitPy)}) > 1 => flow \in TwoFileFlows
SpecTerminates == InitAcyclic /\ [][Next]_vars /\ WF_vars(Next)

\* The number of paths of an acyclic flow that start at step a (the path of a
\* alone included), and the number of those that start at a step without an
\* incoming edge.
RECURSIVE PathsFrom(_, _, _)
PathsFrom(fl, a, n) ==
    IF a \notin DOMAIN fl.succ THEN 1
    ELSE IF n > Len(fl.succ[a]) THEN 1
    ELSE PathsFrom(fl, fl.succ[a][n], 1) + PathsFrom(fl, a, n + 1)
RECURSIVE SumPaths(_, _)
SumPaths(fl, S) ==
    IF S = {} THEN 0
    ELSE LET r == CHOOSE x \in S : TRUE
         IN PathsFrom(fl, r, 1) + SumPaths(fl, S \ {r})
RootPaths(fl) == SumPaths(fl, NoIncoming(fl))

\* The calls of execute() made for input file p.
Dispatches(p) == {i \in DOMAIN log : log[i].art = p.name}

\* run_orchestration is over: no call of execute() is active, each call made
\* has ended completed or failed, and no input file is left.
Terminated ==
    /\ pc \in {"done", "aborted"}
    /\ stack = <<>> /\ remaining = {}
    /\ \A i \in DOMAIN log : log[i].outcome \in {"ok", "failed"} /\ Returned(i)

\* C26: in an acyclic flow, for each input file the calls of execute() are at
\* most as many as the paths of the flow from its steps without an incoming
\* edge, and the run ends: from some point on no call is active or pending and
\* every call made has ended completed or failed.
C26_Terminates ==
    /\ [](\A p \in Eligible : Cardinality(Dispatches(p)) <= RootPaths(flow))
    /\ <>[]Terminated

\* C26 witness: the run over a.txt with the diamond flow is over, with five
\* calls for the file, as many as the diamond has paths from A.
C26_Witness ==
    /\ flow = Diamond /\ Terminated /\ pc = "done"
    /\ Cardinality(Eligible) = 1
    /\ RootPaths(flow) = 5
    /\ \A p \in Eligible : Cardinality(Dispatches(p)) = 5

====
